---------------------------- MODULE Spec2Model ----------------------------
(***************************************************************************)
(* Model of python/treelite/frontend.py: the ModelBuilder front end        *)
(* (Node, Tree, ModelBuilder) together with the native library it drives   *)
(* through _LIB.  The Python objects are modelled from the source; the     *)
(* native library is not part of the source tree and is modelled from the  *)
(* specification as a store of tree resources whose calls either take      *)
(* effect completely or fail without effect.                               *)
(***************************************************************************)
EXTENDS Integers, Sequences, FiniteSets, TLC

\* ------------------------------------------------------------------ bounds
MaxTrees == 2
MaxNodes == 3
MaxKey   == 1
MaxRes   == 4
MaxLen   == 2
MaxOps   == 5
MaxCalls == 2

TreeIds == 1..MaxTrees
NodeIds == 1..MaxNodes
Keys    == 0..MaxKey
ResIds  == 1..MaxRes
Indices == (0 - 1)..(MaxLen + 1)

\* ---------------------------------------------------------- Python values
\* A Python value handed to set_leaf_node: a number, None, or a list of
\* numbers and Nones.
PyNum(x)  == [ty |-> "num",  num |-> x, items |-> <<>>]
PyNone    == [ty |-> "none", num |-> 0, items |-> <<>>]
PyList(s) == [ty |-> "list", num |-> 0, items |-> s]

\* iter(leaf_value) succeeds exactly on a list.
IsList(v) == v.ty = "list"

\* float(x) raises TypeError on None.
FloatFails(v) ==
  IF IsList(v) THEN \E i \in 1..Len(v.items) : v.items[i].ty # "num"
  ELSE v.ty # "num"

\* ctypes.c_float holds an IEEE single: 24 bits of mantissa.  Integers up
\* to 2^24 are kept; between 2^24 and 2^25 the spacing is 2 and a tie goes
\* to the even mantissa (a multiple of 4).
F32(x) ==
  IF x <= 2^24 THEN x
  ELSE IF x % 2 = 0 THEN x
  ELSE IF (x - 1) % 4 = 0 THEN x - 1 ELSE x + 1

\* float(x): the numeric value of a number.
PyFloat(v) == v.num

\* c_array(ctypes.c_float, values): one single per element.
F32Array(s) == [i \in 1..Len(s) |-> F32(s[i])]

Wide == 2^24 + 1

LeafInputs ==
  { PyNum(Wide), PyNone,
    PyList(<<PyNum(1), PyNum(Wide)>>), PyList(<<PyNone>>) }

\* ---------------------------------------------------------------- handles
\* Tree.handle: None, the stand-alone native tree made by
\* TreeliteCreateTreeBuilder, or the reference TreeliteModelBuilderGetTree
\* returned for an ensemble position.
NoHandle     == [k |-> "none", r |-> 0]
OwnHandle(r) == [k |-> "own",  r |-> r]
EnsHandle(p) == [k |-> "ens",  r |-> p]

\* ---------------------------------------------------------- native layer
\* A native tree: whether it is live, who owns it, how often it was
\* released, whether an ensemble-owned tree was released through
\* TreeliteDeleteTreeBuilder, and the keys of the nodes created in it.
FreeRes ==
  [st |-> "free", owner |-> "none", rel |-> 0, viaTree |-> FALSE, keys |-> {}]

\* The native tree a handle addresses: 0 for NULL and for an ensemble
\* position that does not exist.
Resolve(nt, h) ==
  IF h.k = "own" THEN h.r
  ELSE IF h.k = "ens" /\ h.r >= 0 /\ h.r < Len(nt) THEN nt[h.r + 1]
  ELSE 0

InsertAt(s, i, x) == SubSeq(s, 1, i) \o <<x>> \o SubSeq(s, i + 1, Len(s))
RemoveAt(s, i)    == SubSeq(s, 1, i) \o SubSeq(s, i + 2, Len(s))
Range(s)          == {s[i] : i \in 1..Len(s)}

Min2(a, b) == IF a < b THEN a ELSE b

FreshRes(nat) ==
  IF \E r \in ResIds : nat[r].st = "free"
  THEN CHOOSE r \in ResIds :
         nat[r].st = "free" /\ \A q \in ResIds : nat[q].st = "free" => r <= q
  ELSE 0

\* One release of a native tree.
Released(res, viaTreePath) ==
  [res EXCEPT !.st = "released",
              !.rel = Min2(res.rel + 1, 2),
              !.viaTree = res.viaTree \/ (viaTreePath /\ res.owner = "ens")]

\* A native call as the front end makes it: function, key or index, payload.
Call(f, key, val) == [f |-> f, key |-> key, val |-> val]

\* TreeliteCreateTreeBuilder
NativeCreateTreeBuilder(nat, env) ==
  LET r == FreshRes(nat) IN
  IF ~env \/ r = 0 THEN [ok |-> FALSE, nat |-> nat, r |-> 0]
  ELSE [ok |-> TRUE, r |-> r,
        nat |-> [nat EXCEPT ![r] = [FreeRes EXCEPT !.st = "live",
                                                   !.owner = "tree"]]]

\* TreeliteDeleteTreeBuilder
NativeDeleteTreeBuilder(nat, nt, h, env) ==
  LET r == Resolve(nt, h) IN
  IF ~env \/ r = 0 THEN [ok |-> FALSE, nat |-> nat]
  ELSE [ok |-> TRUE, nat |-> [nat EXCEPT ![r] = Released(nat[r], TRUE)]]

\* TreeliteTreeBuilderCreateNode: node keys are unique within a tree.
NativeCreateNode(nat, nt, h, key, env) ==
  LET r == Resolve(nt, h) IN
  IF ~env \/ r = 0 THEN [ok |-> FALSE, nat |-> nat]
  ELSE IF key \in nat[r].keys THEN [ok |-> FALSE, nat |-> nat]
  ELSE [ok |-> TRUE, nat |-> [nat EXCEPT ![r].keys = @ \cup {key}]]

\* TreeliteTreeBuilderSetRootNode, SetLeafNode, SetLeafVectorNode,
\* SetNumericalTestNode and SetCategoricalTestNode: the node at key takes
\* what the call carries; the node has to exist.
NativeSetNode(nat, nt, h, key, env) ==
  LET r == Resolve(nt, h) IN
  env /\ r # 0 /\ key \in nat[r].keys

\* TreeliteModelBuilderInsertTree: the tree's content moves into a new
\* ensemble-owned tree at index; returns index, or -1 on failure.
NativeInsertTree(nat, nt, h, index, env) ==
  LET r  == Resolve(nt, h)
      r2 == FreshRes(nat) IN
  IF ~env \/ r = 0 \/ r2 = 0 \/ index < 0 \/ index > Len(nt)
  THEN [ret |-> 0 - 1, nat |-> nat, nt |-> nt]
  ELSE [ret |-> index,
        nat |-> [nat EXCEPT ![r2] = [FreeRes EXCEPT !.st = "live",
                                                    !.owner = "ens",
                                                    !.keys = nat[r].keys],
                            ![r].keys = {}],
        nt  |-> InsertAt(nt, index, r2)]

\* TreeliteModelBuilderGetTree: a reference bound to ensemble position index.
NativeGetTree(nt, index, env) ==
  IF ~env \/ index < 0 \/ index >= Len(nt)
  THEN [ok |-> FALSE, h |-> NoHandle]
  ELSE [ok |-> TRUE, h |-> EnsHandle(index)]

\* TreeliteModelBuilderDeleteTree: releases the tree at index.
NativeDeleteTree(nat, nt, index, env) ==
  IF ~env \/ index < 0 \/ index >= Len(nt)
  THEN [ok |-> FALSE, nat |-> nat, nt |-> nt]
  ELSE [ok |-> TRUE,
        nat |-> [nat EXCEPT ![nt[index + 1]] = Released(nat[nt[index + 1]], FALSE)],
        nt  |-> RemoveAt(nt, index)]

\* TreeliteDeleteModelBuilder: releases every tree the ensemble holds.
NativeDeleteModelBuilder(nat, nt, env) ==
  IF ~env THEN [ok |-> FALSE, nat |-> nat, nt |-> nt]
  ELSE [ok |-> TRUE,
        nat |-> [r \in ResIds |->
                   IF r \in Range(nt) THEN Released(nat[r], FALSE) ELSE nat[r]],
        nt  |-> <<>>]

\* TreeliteModelBuilderCommitModel: a model of the trees the ensemble holds;
\* the ensemble is left as it is.
NativeCommitModel(nt, env) == [ok |-> env, model |-> Len(nt)]

\* ------------------------------------------------------------ Python state
VARIABLES
  builder,   \* the ModelBuilder object: "alive" or "dead" (after __del__)
  trees,     \* ModelBuilder.trees: the list of Tree objects
  tree,      \* the Tree objects: state, handle, 'ensemble' attribute, nodes
  node,      \* the Node objects: empty flag, node_key and tree attributes
  nat,       \* the native tree resources
  natTrees,  \* the native ensemble's list of trees
  result,    \* the last call: its name, arguments, error and native calls
  ops        \* the number of calls made so far

vars == <<builder, trees, tree, node, nat, natTrees, result, ops>>

NotANode == 0

UnbornTree ==
  [st |-> "unborn", handle |-> NoHandle, ens |-> FALSE,
   nodes |-> [k \in Keys |-> 0]]

UnbornNode ==
  [st |-> "unborn", empty |-> TRUE, kind |-> "Empty", reg |-> FALSE,
   tree |-> 0, key |-> 0]

FreshTree(tr) ==
  IF \E t \in TreeIds : tr[t].st = "unborn"
  THEN CHOOSE t \in TreeIds :
         tr[t].st = "unborn" /\ \A q \in TreeIds : tr[q].st = "unborn" => t <= q
  ELSE 0

FreshNode(nd) ==
  IF \E n \in NodeIds : nd[n].st = "unborn"
  THEN CHOOSE n \in NodeIds :
         nd[n].st = "unborn" /\ \A q \in NodeIds : nd[q].st = "unborn" => n <= q
  ELSE 0

\* key in self.nodes
HasKey(tr, t, key) == tr[t].nodes[key] # 0

KeysOf(tr, t) == {k \in Keys : tr[t].nodes[k] # 0}

\* len(tree)
TreeLen(tr, t) == Cardinality(KeysOf(tr, t))

Cur == [tree |-> tree, node |-> node, nat |-> nat, natTrees |-> natTrees]

\* A call's outcome: the exception raised ("none" when it returns), the
\* native calls it made, what it returns, and the state it leaves.
Raise(S, e, c) ==
  [err |-> e, calls |-> c, ret |-> 0,
   tree |-> S.tree, node |-> S.node, nat |-> S.nat, natTrees |-> S.natTrees]

\* ModelBuilder.Node.__init__
NodeInit(nd, n) == [nd EXCEPT ![n] = [UnbornNode EXCEPT !.st = "alive"]]

\* A mutator that forgets 'self.empty = False'.
MarkKindOnly(nd, n, kind) == [nd EXCEPT ![n].kind = kind]

\* self.empty = False, after the native call of a configuring mutator
MarkConfigured(nd, n, kind) ==
  [nd EXCEPT ![n].empty = FALSE, ![n].kind = kind]

\* __setitem__ with its two state checks in the other order.
SetItemErrorEmptyFirst(S, t, key, v) ==
  IF v \notin NodeIds THEN "NotANode"
  ELSE IF ~S.node[v].empty THEN "NonEmptyInsertion"
  ELSE IF HasKey(S.tree, t, key) THEN "DuplicateKey"
  ELSE "none"

\* __setitem__ without its check of node.empty.
SetItemErrorNoEmptyCheck(S, t, key, v) ==
  IF v \notin NodeIds THEN "NotANode"
  ELSE IF HasKey(S.tree, t, key) THEN "DuplicateKey"
  ELSE "none"

\* The checks of Tree.__setitem__ before its native call.
SetItemError(S, t, key, v) ==
  IF v \notin NodeIds THEN "NotANode"
  ELSE IF HasKey(S.tree, t, key) THEN "DuplicateKey"
  ELSE IF ~S.node[v].empty THEN "NonEmptyInsertion"
  ELSE "none"

\* ModelBuilder.Tree.__setitem__
TreeSetItem(S, t, key, v, env) ==
  IF SetItemError(S, t, key, v) # "none"
  THEN Raise(S, SetItemError(S, t, key, v), <<>>)
  ELSE
    LET c == NativeCreateNode(S.nat, S.natTrees, S.tree[t].handle, key, env) IN
    IF ~c.ok THEN Raise(S, "Native", <<Call("CreateNode", key, <<>>)>>)
    ELSE [err |-> "none", calls |-> <<Call("CreateNode", key, <<>>)>>, ret |-> v,
          tree |-> [S.tree EXCEPT ![t].nodes[key] = v],
          node |-> [S.node EXCEPT ![v].reg = TRUE, ![v].key = key, ![v].tree = t],
          nat |-> c.nat, natTrees |-> S.natTrees]

\* self.tree[key] = ModelBuilder.Node(): a new Node object, then __setitem__
SetFreshItem(S, t, key, env) ==
  LET n  == FreshNode(S.node)
      S1 == [S EXCEPT !.node = NodeInit(S.node, n)]
      o  == TreeSetItem(S1, t, key, n, env) IN
  IF o.err = "none" THEN o ELSE Raise(S, o.err, o.calls)

\* __getitem__ that hands out a new Node without storing it.
TreeGetItemDetached(S, t, key, env) ==
  IF ~HasKey(S.tree, t, key)
  THEN [Raise(S, "none", <<>>) EXCEPT
          !.node = NodeInit(S.node, FreshNode(S.node)),
          !.ret = FreshNode(S.node)]
  ELSE [Raise(S, "none", <<>>) EXCEPT !.ret = S.tree[t].nodes[key]]

\* ModelBuilder.Tree.__getitem__
TreeGetItem(S, t, key, env) ==
  IF ~HasKey(S.tree, t, key)
  THEN SetFreshItem(S, t, key, env)
  ELSE [Raise(S, "none", <<>>) EXCEPT !.ret = S.tree[t].nodes[key]]

\* __delitem__ that clears the whole mapping.
TreeDelItemAll(S, t, key) ==
  IF ~HasKey(S.tree, t, key) THEN Raise(S, "KeyError", <<>>)
  ELSE [Raise(S, "none", <<>>) EXCEPT
          !.tree = [S.tree EXCEPT ![t].nodes = [k \in Keys |-> 0]]]

\* ModelBuilder.Tree.__delitem__
TreeDelItem(S, t, key) ==
  IF ~HasKey(S.tree, t, key) THEN Raise(S, "KeyError", <<>>)
  ELSE [Raise(S, "none", <<>>) EXCEPT !.tree = [S.tree EXCEPT ![t].nodes[key] = 0]]

\* A mutator without its 'except AttributeError' clause.
UncaughtAttributeError == "AttributeError"

\* What 'except AttributeError' makes of a node without tree and node_key.
UnregisteredError == "Unregistered"

\* ModelBuilder.Node.set_root
NodeSetRoot(S, n, env) ==
  IF ~S.node[n].reg THEN Raise(S, UnregisteredError, <<>>)
  ELSE
    LET calls == <<Call("SetRootNode", S.node[n].key, <<>>)>> IN
    IF ~NativeSetNode(S.nat, S.natTrees, S.tree[S.node[n].tree].handle,
                      S.node[n].key, env)
    THEN Raise(S, "Native", calls)
    ELSE Raise(S, "none", calls)

\* set_leaf_node handing the native layer doubles.
LeafCallDouble(key, v) ==
  IF IsList(v)
  THEN Call("SetLeafVectorNode", key,
            [i \in 1..Len(v.items) |-> PyFloat(v.items[i])])
  ELSE Call("SetLeafNode", key, <<PyFloat(v)>>)

\* The native call of set_leaf_node: the vector call for a list-like value,
\* the scalar call otherwise, the values converted by float() and c_float.
LeafCall(key, v) ==
  IF IsList(v)
  THEN Call("SetLeafVectorNode", key,
            F32Array([i \in 1..Len(v.items) |-> PyFloat(v.items[i])]))
  ELSE Call("SetLeafNode", key, <<F32(PyFloat(v))>>)

\* ModelBuilder.Node.set_leaf_node
NodeSetLeaf(S, n, v, env) ==
  IF FloatFails(v) THEN Raise(S, "LeafType", <<>>)
  ELSE IF ~S.node[n].reg THEN Raise(S, UnregisteredError, <<>>)
  ELSE
    LET calls == <<LeafCall(S.node[n].key, v)>> IN
    IF ~NativeSetNode(S.nat, S.natTrees, S.tree[S.node[n].tree].handle,
                      S.node[n].key, env)
    THEN Raise(S, "Native", calls)
    ELSE [Raise(S, "none", calls) EXCEPT
            !.node = MarkConfigured(S.node, n, "Leaf")]

\* A test-node mutator that never creates a child.
NeverNeedsChild(tr, t, key) == FALSE

\* 'child_key not in self.tree': the child has to be created.
NeedsChild(tr, t, key) == ~HasKey(tr, t, key)

\* ModelBuilder.Node.set_numerical_test_node and set_categorical_test_node:
\* the two differ in the native call only.
NodeSetTest(S, n, kind, name, left, right, envL, envR, env) ==
  IF ~S.node[n].reg THEN Raise(S, UnregisteredError, <<>>)
  ELSE
    LET t  == S.node[n].tree
        oL == IF NeedsChild(S.tree, t, left)
              THEN SetFreshItem(S, t, left, envL) ELSE Raise(S, "none", <<>>) IN
    IF oL.err # "none" THEN oL
    ELSE
      LET oR == IF NeedsChild(oL.tree, t, right)
                THEN SetFreshItem(oL, t, right, envR) ELSE Raise(oL, "none", <<>>) IN
      IF oR.err # "none" THEN Raise(oR, oR.err, oL.calls \o oR.calls)
      ELSE
        LET calls == oL.calls \o oR.calls
                     \o <<Call(name, oR.node[n].key, <<left, right>>)>> IN
        IF ~NativeSetNode(oR.nat, oR.natTrees, oR.tree[t].handle,
                          oR.node[n].key, env)
        THEN Raise(oR, "Native", calls)
        ELSE [Raise(oR, "none", calls) EXCEPT
                !.node = MarkConfigured(oR.node, n, kind)]

NodeSetNumericalTest(S, n, left, right, envL, envR, env) ==
  NodeSetTest(S, n, "NumericalTest", "SetNumericalTestNode",
              left, right, envL, envR, env)

NodeSetCategoricalTest(S, n, left, right, envL, envR, env) ==
  NodeSetTest(S, n, "CategoricalTest", "SetCategoricalTestNode",
              left, right, envL, envR, env)

\* 'index < 0 or index > len(self)' of ModelBuilder.insert
IndexOutOfBounds(index, n) == index < 0 \/ index > n

\* insert that records the tree at the end of the list.
ListInsertAppend(tl, index, t) == Append(tl, t)

\* self.trees.insert(index, tree)
ListInsert(tl, index, t) == InsertAt(tl, index, t)

\* ModelBuilder.insert
BuilderInsert(S, tl, t, index, e1, e2, e3) ==
  IF IndexOutOfBounds(index, Len(tl))
  THEN [Raise(S, "IndexOutOfRange", <<>>) EXCEPT !.ret = tl]
  ELSE
    LET i == NativeInsertTree(S.nat, S.natTrees, S.tree[t].handle, index, e1) IN
    IF i.ret # index
    THEN [Raise(S, "Native", <<Call("InsertTree", index, <<>>)>>) EXCEPT !.ret = tl]
    ELSE
      LET d == NativeDeleteTreeBuilder(i.nat, i.nt, S.tree[t].handle, e2)
          S2 == [S EXCEPT !.nat = d.nat, !.natTrees = i.nt] IN
      IF ~d.ok
      THEN [Raise(S2, "Native", <<Call("InsertTree", index, <<>>),
                                  Call("DeleteTreeBuilder", 0, <<>>)>>)
              EXCEPT !.ret = tl]
      ELSE
        LET g == NativeGetTree(i.nt, index, e3)
            calls == <<Call("InsertTree", index, <<>>),
                       Call("DeleteTreeBuilder", 0, <<>>),
                       Call("GetTree", index, <<>>)>> IN
        IF ~g.ok
        THEN [Raise(S2, "Native", calls) EXCEPT !.ret = tl]
        ELSE [Raise(S2, "none", calls) EXCEPT
                !.tree = [S.tree EXCEPT ![t].handle = g.h, ![t].ens = TRUE],
                !.ret = ListInsert(tl, index, t)]

\* __delitem__ that always drops the last tree of the list.
ListDeleteLast(tl, index) == SubSeq(tl, 1, Len(tl) - 1)

\* append that puts the tree in front.
BuilderAppendFront(S, tl, t, e1, e2, e3) == BuilderInsert(S, tl, t, 0, e1, e2, e3)

\* ModelBuilder.append
BuilderAppend(S, tl, t, e1, e2, e3) ==
  BuilderInsert(S, tl, t, Len(tl), e1, e2, e3)

\* Model(handle): the Model object commit returns.
PyModel(h) == [ty |-> "model", num |-> h, items |-> <<>>]

\* commit that does not check the outcome of the native call.
BuilderCommitUnchecked(S, env) ==
  [Raise(S, "none", <<Call("CommitModel", 0, <<>>)>>) EXCEPT
     !.ret = PyModel(NativeCommitModel(S.natTrees, env).model)]

\* ModelBuilder.commit
BuilderCommit(S, env) ==
  LET c == NativeCommitModel(S.natTrees, env)
      calls == <<Call("CommitModel", 0, <<>>)>> IN
  IF ~c.ok THEN [Raise(S, "Native", calls) EXCEPT !.ret = PyNone]
  ELSE [Raise(S, "none", calls) EXCEPT !.ret = PyModel(c.model)]

\* self.trees.__delitem__(index)
ListDelete(tl, index) == RemoveAt(tl, index)

\* ModelBuilder.__delitem__
BuilderDelItem(S, tl, index, env) ==
  LET d == NativeDeleteTree(S.nat, S.natTrees, index, env)
      S2 == [S EXCEPT !.nat = d.nat, !.natTrees = d.nt] IN
  IF ~d.ok
  THEN [Raise(S, "Native", <<Call("DeleteTree", index, <<>>)>>) EXCEPT !.ret = tl]
  ELSE IF index >= Len(tl)
  THEN [Raise(S2, "IndexError", <<Call("DeleteTree", index, <<>>)>>)
          EXCEPT !.ret = tl]
  ELSE [Raise(S2, "none", <<Call("DeleteTree", index, <<>>)>>) EXCEPT
          !.tree = [S.tree EXCEPT ![tl[index + 1]].handle = NoHandle],
          !.ret = ListDelete(tl, index)]

\* ModelBuilder.Tree.__del__: an exception raised in it is dropped.
TreeDel(S, t, env) ==
  IF S.tree[t].handle = NoHandle THEN Raise(S, "none", <<>>)
  ELSE IF S.tree[t].ens
  THEN [Raise(S, "none", <<>>) EXCEPT
          !.tree = [S.tree EXCEPT ![t].handle = NoHandle]]
  ELSE
    LET d == NativeDeleteTreeBuilder(S.nat, S.natTrees, S.tree[t].handle, env) IN
    IF ~d.ok THEN Raise(S, "Native", <<Call("DeleteTreeBuilder", 0, <<>>)>>)
    ELSE [Raise(S, "none", <<Call("DeleteTreeBuilder", 0, <<>>)>>) EXCEPT
            !.nat = d.nat,
            !.tree = [S.tree EXCEPT ![t].handle = NoHandle]]

\* ---------------------------------------------------------------- actions
\* The record of the last call: its name, the tree, node, key, index and
\* value it was given, whether the native layer was left to work (env),
\* the configuration the node had before, the error raised and the native
\* calls made.
Res(op, t, n, key, index, arg, env, was, err, calls) ==
  [op |-> op, tree |-> t, node |-> n, key |-> key, index |-> index,
   arg |-> arg, env |-> env, was |-> was, err |-> err, calls |-> calls]

Init ==
  /\ builder = "alive"
  /\ trees = <<>>
  /\ tree = [t \in TreeIds |-> UnbornTree]
  /\ node = [n \in NodeIds |-> UnbornNode]
  /\ nat = [r \in ResIds |-> FreeRes]
  /\ natTrees = <<>>
  /\ result = Res("init", 0, 0, 0, 0, PyNone, TRUE, "", "none", <<>>)
  /\ ops = 0

\* A stored node or tree is reachable by the caller only while its tree
\* object has not been finalized.
TreeAlive(t) == tree[t].st = "alive"

NodeUsable(n) ==
  /\ node[n].st = "alive"
  /\ node[n].reg => TreeAlive(node[n].tree)

Apply(o) ==
  /\ tree' = o.tree
  /\ node' = o.node
  /\ nat' = o.nat
  /\ natTrees' = o.natTrees

\* The caller's program makes at most MaxOps calls.
Tick ==
  /\ ops < MaxOps
  /\ ops' = ops + 1

\* Tree(): ModelBuilder.Tree.__init__
NewTree(env) ==
  /\ Tick
  /\ FreshTree(tree) # 0
  /\ LET t == FreshTree(tree)
         c == NativeCreateTreeBuilder(nat, env) IN
       /\ nat' = c.nat
       /\ tree' = IF c.ok
                  THEN [tree EXCEPT ![t] = [UnbornTree EXCEPT
                                              !.st = "alive",
                                              !.handle = OwnHandle(c.r)]]
                  ELSE tree
       /\ result' = Res("Tree", IF c.ok THEN t ELSE 0, 0, 0, 0, PyNone, env, "",
                        IF c.ok THEN "none" ELSE "Native",
                        <<Call("CreateTreeBuilder", 0, <<>>)>>)
  /\ UNCHANGED <<builder, trees, node, natTrees>>

\* Node(): ModelBuilder.Node.__init__
NewNode ==
  /\ Tick
  /\ FreshNode(node) # 0
  /\ node' = NodeInit(node, FreshNode(node))
  /\ result' = Res("Node", 0, FreshNode(node), 0, 0, PyNone, TRUE, "",
                   "none", <<>>)
  /\ UNCHANGED <<builder, trees, tree, nat, natTrees>>

\* tree[key]
Get(t, key, env) ==
  /\ Tick
  /\ TreeAlive(t)
  /\ ~HasKey(tree, t, key) => FreshNode(node) # 0
  /\ LET o == TreeGetItem(Cur, t, key, env) IN
       /\ Apply(o)
       /\ result' = Res("get", t, o.ret, key, 0, PyNone, env, "", o.err, o.calls)
  /\ UNCHANGED <<builder, trees>>

\* tree[key] = value
Set(t, key, v, env) ==
  /\ Tick
  /\ TreeAlive(t)
  /\ v \in NodeIds => NodeUsable(v)
  /\ LET o == TreeSetItem(Cur, t, key, v, env) IN
       /\ Apply(o)
       /\ result' = Res("set", t, v, key, 0, PyNone, env,
                        IF v \in NodeIds THEN node[v].kind ELSE "",
                        o.err, o.calls)
  /\ UNCHANGED <<builder, trees>>

\* del tree[key]
Remove(t, key) ==
  /\ Tick
  /\ TreeAlive(t)
  /\ LET o == TreeDelItem(Cur, t, key) IN
       /\ Apply(o)
       /\ result' = Res("remove", t, 0, key, 0, PyNone, TRUE, "", o.err, o.calls)
  /\ UNCHANGED <<builder, trees>>

\* node.set_root()
SetRoot(n, env) ==
  /\ Tick
  /\ NodeUsable(n)
  /\ LET o == NodeSetRoot(Cur, n, env) IN
       /\ Apply(o)
       /\ result' = Res("setRoot", node[n].tree, n, node[n].key, 0, PyNone, env,
                        node[n].kind, o.err, o.calls)
  /\ UNCHANGED <<builder, trees>>

\* node.set_leaf_node(v)
SetLeaf(n, v, env) ==
  /\ Tick
  /\ NodeUsable(n)
  /\ LET o == NodeSetLeaf(Cur, n, v, env) IN
       /\ Apply(o)
       /\ result' = Res("setLeaf", node[n].tree, n, node[n].key, 0, v, env,
                        node[n].kind, o.err, o.calls)
  /\ UNCHANGED <<builder, trees>>

\* The Node objects a test-node call may have to create.
Missing(n, left, right) ==
  IF node[n].reg
  THEN Cardinality({k \in {left, right} : ~HasKey(tree, node[n].tree, k)})
  ELSE 0

Unborn == Cardinality({n \in NodeIds : node[n].st = "unborn"})

\* node.set_numerical_test_node(..., left, right)
SetNumericalTest(n, left, right, envL, envR, env) ==
  /\ Tick
  /\ NodeUsable(n)
  /\ Missing(n, left, right) <= Unborn
  /\ LET o == NodeSetNumericalTest(Cur, n, left, right, envL, envR, env) IN
       /\ Apply(o)
       /\ result' = Res("setNumericalTest", node[n].tree, n, node[n].key, 0,
                        PyList(<<PyNum(left), PyNum(right)>>),
                        envL /\ envR /\ env, node[n].kind, o.err, o.calls)
  /\ UNCHANGED <<builder, trees>>

\* node.set_categorical_test_node(..., left, right)
SetCategoricalTest(n, left, right, envL, envR, env) ==
  /\ Tick
  /\ NodeUsable(n)
  /\ Missing(n, left, right) <= Unborn
  /\ LET o == NodeSetCategoricalTest(Cur, n, left, right, envL, envR, env) IN
       /\ Apply(o)
       /\ result' = Res("setCategoricalTest", node[n].tree, n, node[n].key, 0,
                        PyList(<<PyNum(left), PyNum(right)>>),
                        envL /\ envR /\ env, node[n].kind, o.err, o.calls)
  /\ UNCHANGED <<builder, trees>>

\* builder.insert(tree, index)
Insert(t, index, e1, e2, e3) ==
  /\ Tick
  /\ builder = "alive"
  /\ TreeAlive(t)
  /\ Len(trees) < MaxLen
  /\ LET o == BuilderInsert(Cur, trees, t, index, e1, e2, e3) IN
       /\ Apply(o)
       /\ trees' = o.ret
       /\ result' = Res("insert", t, 0, 0, index, PyNone, e1 /\ e2 /\ e3, "",
                        o.err, o.calls)
  /\ UNCHANGED <<builder, node>>

\* del builder[index]
Delete(index, env) ==
  /\ Tick
  /\ builder = "alive"
  /\ LET o == BuilderDelItem(Cur, trees, index, env) IN
       /\ Apply(o)
       /\ trees' = o.ret
       /\ result' = Res("delete", 0, 0, 0, index, PyNone, env, "", o.err, o.calls)
  /\ UNCHANGED <<builder, node>>

\* builder.append(tree)
AppendTree(t, e1, e2, e3) ==
  /\ Tick
  /\ builder = "alive"
  /\ TreeAlive(t)
  /\ Len(trees) < MaxLen
  /\ LET o == BuilderAppend(Cur, trees, t, e1, e2, e3) IN
       /\ Apply(o)
       /\ trees' = o.ret
       /\ result' = Res("append", t, 0, 0, Len(trees), PyNone, e1 /\ e2 /\ e3, "",
                        o.err, o.calls)
  /\ UNCHANGED <<builder, node>>

\* builder.commit()
Commit(env) ==
  /\ Tick
  /\ builder = "alive"
  /\ LET o == BuilderCommit(Cur, env) IN
       /\ Apply(o)
       /\ result' = Res("commit", 0, 0, 0, 0, o.ret, env, "", o.err, o.calls)
  /\ UNCHANGED <<builder, trees>>

\* The last reference to a Tree goes away: Tree.__del__ runs.  The
\* builder's list keeps its trees referenced while the builder lives.
DropTree(t, env) ==
  /\ Tick
  /\ TreeAlive(t)
  /\ builder = "alive" => t \notin Range(trees)
  /\ LET o == TreeDel(Cur, t, env) IN
       /\ nat' = o.nat
       /\ natTrees' = o.natTrees
       /\ tree' = [o.tree EXCEPT ![t].st = "dead"]
       /\ result' = Res("delTree", t, 0, 0, 0, PyNone, env, "", o.err, o.calls)
  /\ UNCHANGED <<builder, trees, node>>

\* The last reference to the builder goes away: ModelBuilder.__del__ runs.
DropBuilder(env) ==
  /\ Tick
  /\ builder = "alive"
  /\ LET d == NativeDeleteModelBuilder(nat, natTrees, env) IN
       /\ nat' = d.nat
       /\ natTrees' = d.nt
       /\ result' = Res("delBuilder", 0, 0, 0, 0, PyNone, env, "",
                        IF d.ok THEN "none" ELSE "Native",
                        <<Call("DeleteModelBuilder", 0, <<>>)>>)
  /\ builder' = "dead"
  /\ UNCHANGED <<trees, tree, node>>

\* A call makes up to three native calls and stops at the first that
\* fails: the one that fails (0: none) stands for the three outcomes.
FailSlots == 0..3

\* One call of the caller's program.
Next ==
  \/ \E env \in BOOLEAN : NewTree(env)
  \/ NewNode
  \/ \E t \in TreeIds, key \in Keys, env \in BOOLEAN : Get(t, key, env)
  \/ \E t \in TreeIds, key \in Keys, v \in NodeIds \cup {NotANode},
        env \in BOOLEAN : Set(t, key, v, env)
  \/ \E t \in TreeIds, key \in Keys : Remove(t, key)
  \/ \E n \in NodeIds, env \in BOOLEAN : SetRoot(n, env)
  \/ \E n \in NodeIds, v \in LeafInputs, env \in BOOLEAN : SetLeaf(n, v, env)
  \/ \E n \in NodeIds, left \in Keys, right \in Keys, fail \in FailSlots :
        SetNumericalTest(n, left, right, fail # 1, fail # 2, fail # 3)
  \/ \E n \in NodeIds, left \in Keys, right \in Keys, fail \in FailSlots :
        SetCategoricalTest(n, left, right, fail # 1, fail # 2, fail # 3)
  \/ \E t \in TreeIds, index \in Indices, fail \in FailSlots :
        Insert(t, index, fail # 1, fail # 2, fail # 3)
  \/ \E t \in TreeIds, fail \in FailSlots :
        AppendTree(t, fail # 1, fail # 2, fail # 3)
  \/ \E index \in Indices, env \in BOOLEAN : Delete(index, env)
  \/ \E env \in BOOLEAN : Commit(env)
  \/ \E t \in TreeIds, env \in BOOLEAN : DropTree(t, env)
  \/ \E env \in BOOLEAN : DropBuilder(env)

Spec == Init /\ [][Next]_vars

\* ------------------------------------------------------- Model and params
\* A string as the sequence of its code points.
Xgboost  == <<120, 103, 98, 111, 111, 115, 116>>
Lightgbm == <<108, 105, 103, 104, 116, 103, 98, 109>>
Protobuf == <<112, 114, 111, 116, 111, 98, 117, 102>>

\* Other spellings and other names: "XGBoost", "LIGHTGBM", "Protobuf",
\* "onnx", "xgboost " with a trailing blank, "", and "xgboöst",
\* "protobufİ" which are not ASCII.
FormatInputs ==
  {Xgboost, Lightgbm, Protobuf,
   <<88, 71, 66, 111, 111, 115, 116>>,
   <<76, 73, 71, 72, 84, 71, 66, 77>>,
   <<80, 114, 111, 116, 111, 98, 117, 102>>,
   <<111, 110, 110, 120>>,
   <<120, 103, 98, 111, 111, 115, 116, 32>>,
   <<>>,
   <<120, 103, 98, 111, 246, 115, 116>>,
   <<112, 114, 111, 116, 111, 98, 117, 102, 304>>}

\* The bytes of one code point in UTF-8.
Utf8Len(c) == IF c < 128 THEN 1 ELSE IF c < 2048 THEN 2 ELSE 3

RECURSIVE EncodedLen(_)
EncodedLen(s) ==
  IF s = <<>> THEN 0 ELSE Utf8Len(Head(s)) + EncodedLen(Tail(s))

\* _isascii: len(string) == len(string.encode())
IsAscii(s) == Len(s) = EncodedLen(s)

\* str.lower() on an ASCII string
LowerChar(c) == IF c >= 65 /\ c <= 90 THEN c + 32 ELSE c
Lower(s) == [i \in 1..Len(s) |-> LowerChar(s[i])]

\* The importer Model.load calls for a format already lower-cased.
ImporterOf(fmt) ==
  IF fmt = Lightgbm THEN "LoadLightGBMModel"
  ELSE IF fmt = Xgboost THEN "LoadXGBoostModel"
  ELSE IF fmt = Protobuf THEN "LoadProtobufModel"
  ELSE "none"

\* A string argument of a call.
PyStr(s) == [ty |-> "str", num |-> 0, items |-> s]

\* A call's outcome outside the builder: error, calls made, value returned.
Outcome(e, c, r) == [err |-> e, calls |-> c, ret |-> r]

\* load that compares the format as it was given.
ModelLoadCaseSensitive(fmt, env) ==
  IF ~IsAscii(fmt) THEN Outcome("UnsupportedFormat", <<>>, PyNone)
  ELSE IF ImporterOf(fmt) = "none"
  THEN Outcome("UnsupportedFormat", <<>>, PyNone)
  ELSE IF ~env THEN Outcome("Native", <<Call(ImporterOf(fmt), 0, <<>>)>>, PyNone)
  ELSE Outcome("none", <<Call(ImporterOf(fmt), 0, <<>>)>>, PyModel(1))

\* Model.load
ModelLoad(fmt, env) ==
  IF ~IsAscii(fmt) THEN Outcome("UnsupportedFormat", <<>>, PyNone)
  ELSE
    LET f == ImporterOf(Lower(fmt)) IN
    IF f = "none" THEN Outcome("UnsupportedFormat", <<>>, PyNone)
    ELSE IF ~env THEN Outcome("Native", <<Call(f, 0, <<>>)>>, PyNone)
    ELSE Outcome("none", <<Call(f, 0, <<>>)>>, PyModel(1))

\* One (key, value) entry of a parameter set.
Pair(k, v) == [key |-> k, val |-> v]

\* A parameter set as the caller gives it: a mapping (keys unique, in
\* iteration order), a list of pairs, or a single key with a value (PyNone
\* when the value is left out).
PyMapping(entries) == [ty |-> "mapping", num |-> 0, items |-> entries]
PyPairs(entries)   == [ty |-> "list", num |-> 0, items |-> entries]
PySingle(k, v)     == [ty |-> "single", num |-> 0, items |-> <<Pair(k, v)>>]

KeyA == <<97>>
KeyB == <<98>>
ValX == PyStr(<<120>>)
ValY == PyStr(<<121>>)

ParamInputs ==
  {PyMapping(<<>>),
   PyMapping(<<Pair(KeyA, ValX)>>),
   PyMapping(<<Pair(KeyB, ValX), Pair(KeyA, PyNum(12))>>),
   PyPairs(<<Pair(KeyA, ValX), Pair(KeyB, ValY)>>),
   PyPairs(<<Pair(KeyA, ValX), Pair(KeyB, ValY), Pair(KeyA, ValY)>>),
   PyPairs(<<Pair(KeyA, PyNum(7))>>),
   PySingle(KeyA, ValX),
   PySingle(KeyA, PyNum(12)),
   PySingle(KeyA, PyNone)}

\* str(val): a string is itself, an integer its decimal digits.
RECURSIVE IntStr(_)
IntStr(n) ==
  IF n < 10 THEN <<48 + n>> ELSE IntStr(n \div 10) \o <<48 + (n % 10)>>

Str(v) ==
  IF v.ty = "str" THEN v.items
  ELSE IF v.ty = "num" THEN IntStr(v.num)
  ELSE <<78, 111, 110, 101>>

\* c_str(val) encodes a string; any other value has no encode().
CStrFails(v) == v.ty # "str"

\* dict(params) for a list of pairs: one entry per key, at the place of the
\* key's first pair, with the value of its last.
RECURSIVE LastVal(_, _)
LastVal(entries, k) ==
  IF entries[Len(entries)].key = k THEN entries[Len(entries)].val
  ELSE LastVal(SubSeq(entries, 1, Len(entries) - 1), k)

RECURSIVE DictOf(_, _)
DictOf(entries, i) ==
  IF i > Len(entries) THEN <<>>
  ELSE IF \E j \in 1..(i - 1) : entries[j].key = entries[i].key
  THEN DictOf(entries, i + 1)
  ELSE <<Pair(entries[i].key, LastVal(entries, entries[i].key))>>
       \o DictOf(entries, i + 1)

\* The pairs the loop 'for key, val in params' runs over; a string without
\* a value is iterated character by character and cannot be unpacked.
Unpackable(p) == ~(p.ty = "single" /\ p.items[1].val = PyNone /\ p.items[1].key # <<>>)
LoopPairs(p) ==
  IF p.ty = "single" /\ p.items[1].val = PyNone THEN <<>> ELSE p.items

\* The loop of _set_param and _set_compiler_param: one native call per
\* pair, up to the first value that cannot be passed or the first call the
\* native layer refuses (the refused-th call; 0: none).
RECURSIVE ForwardFrom(_, _, _, _, _, _)
ForwardFrom(name, pairs, i, strFirst, refused, acc) ==
  IF i > Len(pairs) THEN Outcome("none", acc, PyNone)
  ELSE IF ~strFirst /\ CStrFails(pairs[i].val)
  THEN Outcome("AttributeError", acc, PyNone)
  ELSE
    LET val == IF strFirst THEN Str(pairs[i].val) ELSE pairs[i].val.items
        acc2 == Append(acc, Call(name, pairs[i].key, val)) IN
    IF refused = i THEN Outcome("Native", acc2, PyNone)
    ELSE ForwardFrom(name, pairs, i + 1, strFirst, refused, acc2)

\* ModelBuilder._set_param
SetParam(p, refused) ==
  IF ~Unpackable(p) THEN Outcome("ValueError", <<>>, PyNone)
  ELSE ForwardFrom("ModelBuilderSetModelParam", LoopPairs(p), 1, FALSE, refused, <<>>)

\* Model._set_compiler_param
SetCompilerParam(p, refused) ==
  IF ~Unpackable(p) THEN Outcome("ValueError", <<>>, PyNone)
  ELSE ForwardFrom("CompilerSetParam", LoopPairs(p), 1, TRUE, refused, <<>>)

\* '_params = dict(params) if isinstance(params, list) else params' and
\* '_params or {}' in Model.compile
CompileParams(p) ==
  IF p.ty = "list" THEN PyMapping(DictOf(p.items, 1))
  ELSE IF p.ty = "single" /\ p.items[1].key = <<>> THEN PyMapping(<<>>)
  ELSE p

\* Model.compile: the compiler is created, given the parameters, run and
\* freed; failed names the native call that fails (0: none; 1: create,
\* 2: the first parameter, 3: code generation, 4: free).  compile takes no
\* value argument: a single key reaches _set_compiler_param without value.
ModelCompile(p, failed) ==
  LET create == <<Call("CompilerCreate", <<>>, <<>>)>>
      given  == IF p.ty = "single" THEN PySingle(p.items[1].key, PyNone) ELSE p
      set    == SetCompilerParam(CompileParams(given), IF failed = 2 THEN 1 ELSE 0)
      gen    == <<Call("CompilerGenerateCode", <<>>, <<>>)>>
      free   == <<Call("CompilerFree", <<>>, <<>>)>> IN
  IF failed = 1 THEN Outcome("Native", create, PyNone)
  ELSE IF set.err # "none" THEN Outcome(set.err, create \o set.calls, PyNone)
  ELSE IF failed = 3 THEN Outcome("Native", create \o set.calls \o gen, PyNone)
  ELSE IF failed = 4
  THEN Outcome("Native", create \o set.calls \o gen \o free, PyNone)
  ELSE Outcome("none", create \o set.calls \o gen \o free, PyNone)

\* The steps of export_lib outside the native library.
Step(name) == Call(name, <<>>, <<>>)

\* export_lib that moves whatever the library build left.
ModelExportLibMoveAnyway(p, failed) ==
  LET c == ModelCompile(p, IF failed \in 1..4 THEN failed ELSE 0)
      head == <<Step("check_ext"), Step("TemporaryDirectory")>> \o c.calls
      tail == <<Step("create_shared"), Step("move"), Step("cleanup")>> IN
  IF failed = 5 THEN Outcome("ExtensionMismatch", <<Step("check_ext")>>, PyNone)
  ELSE IF c.err # "none" THEN Outcome(c.err, head \o <<Step("cleanup")>>, PyNone)
  ELSE IF failed = 6 THEN Outcome("Toolchain", head \o tail, PyNone)
  ELSE IF failed = 7 THEN Outcome("IOError", head \o tail, PyNone)
  ELSE Outcome("none", head \o tail, PyNone)

\* Model.export_lib: failed names the step that fails (0: none; 1..4: the
\* native calls of compile; 5: the extension check, 6: the library build,
\* 7: the move).  The temporary directory is removed when the with block
\* is left, on either path.
ModelExportLib(p, failed) ==
  LET check  == <<Step("check_ext")>>
      enter  == <<Step("TemporaryDirectory")>>
      leave  == <<Step("cleanup")>>
      c      == ModelCompile(p, IF failed \in 1..4 THEN failed ELSE 0)
      build  == <<Step("create_shared")>>
      move   == <<Step("move")>> IN
  IF failed = 5 THEN Outcome("ExtensionMismatch", check, PyNone)
  ELSE IF c.err # "none"
  THEN Outcome(c.err, check \o enter \o c.calls \o leave, PyNone)
  ELSE IF failed = 6
  THEN Outcome("Toolchain", check \o enter \o c.calls \o build \o leave, PyNone)
  ELSE IF failed = 7
  THEN Outcome("IOError", check \o enter \o c.calls \o build \o move \o leave,
               PyNone)
  ELSE Outcome("none", check \o enter \o c.calls \o build \o move \o leave,
               PyNone)

\* Python values given for num_feature, num_output_group, random_forest.
PyBool(b) == [ty |-> "bool", num |-> IF b THEN 1 ELSE 0, items |-> <<>>]
CountInputs == {PyNum(0 - 1), PyNum(0), PyNum(1), PyNum(2), PyNone, PyStr(<<49>>)}
FlagInputs  == {PyBool(TRUE), PyBool(FALSE), PyNum(2), PyNone, PyStr(<<110, 111>>)}
KwargInputs == {p \in ParamInputs : p.ty = "mapping"}

\* isinstance(x, int): bool is a subclass of int.
IsInstanceInt(v) == v.ty \in {"num", "bool"}

\* The truth value of x in '1 if random_forest else 0'.
Truthy(v) ==
  IF v.ty \in {"num", "bool"} THEN v.num # 0
  ELSE IF v.ty = "none" THEN FALSE
  ELSE v.items # <<>>

\* ModelBuilder.__init__: failed names the native call that fails (0: none;
\* 1: TreeliteCreateModelBuilder, 2: the first parameter).
ModelBuilderInit(nf, ng, rf, kwargs, failed) ==
  LET create == <<Call("CreateModelBuilder", <<>>,
                       <<nf.num, ng.num, IF Truthy(rf) THEN 1 ELSE 0>>)>>
      set    == SetParam(kwargs, IF failed = 2 THEN 1 ELSE 0) IN
  IF ~IsInstanceInt(nf) THEN Outcome("Validation", <<>>, PyNone)
  ELSE IF nf.num <= 0 THEN Outcome("Validation", <<>>, PyNone)
  ELSE IF ~IsInstanceInt(ng) THEN Outcome("Validation", <<>>, PyNone)
  ELSE IF ng.num <= 0 THEN Outcome("Validation", <<>>, PyNone)
  ELSE IF failed = 1 THEN Outcome("Native", create, PyNone)
  ELSE IF set.err # "none" THEN Outcome(set.err, create \o set.calls, PyNone)
  ELSE Outcome("none", create \o set.calls, PyNone)

\* ------------------------------------------- calls outside a built ensemble
\* No builder has been constructed yet.
InitCalls ==
  /\ builder = "unborn"
  /\ trees = <<>>
  /\ tree = [t \in TreeIds |-> UnbornTree]
  /\ node = [n \in NodeIds |-> UnbornNode]
  /\ nat = [r \in ResIds |-> FreeRes]
  /\ natTrees = <<>>
  /\ result = Res("init", 0, 0, 0, 0, PyNone, TRUE, "", "none", <<>>)
  /\ ops = 0

\* The caller's program makes at most MaxCalls of these calls.
TickCall ==
  /\ ops < MaxCalls
  /\ ops' = ops + 1

\* What a call returned: "Model" for a Model object, "" for nothing.
Returned(o) == IF o.ret = PyNone THEN "" ELSE "Model"

\* ModelBuilder(num_feature, num_output_group, random_forest, **kwargs)
Construct(nf, ng, rf, kwargs, failed) ==
  /\ TickCall
  /\ builder = "unborn"
  /\ LET o == ModelBuilderInit(nf, ng, rf, kwargs, failed) IN
       /\ builder' = IF o.err = "none" THEN "alive" ELSE "unborn"
       /\ trees' = <<>>
       /\ result' = Res("ModelBuilder", 0, 0, 0, failed,
                        PyList(<<nf, ng, rf, kwargs>>), failed = 0, "",
                        o.err, o.calls)
  /\ UNCHANGED <<tree, node, nat, natTrees>>

\* builder._set_param(params, value)
SetParamCall(p, refused) ==
  /\ TickCall
  /\ builder = "alive"
  /\ LET o == SetParam(p, refused) IN
       result' = Res("setParam", 0, 0, 0, refused, p, refused = 0, "",
                     o.err, o.calls)
  /\ UNCHANGED <<builder, trees, tree, node, nat, natTrees>>

\* Model.load(filename, model_format)
Load(fmt, env) ==
  /\ TickCall
  /\ LET o == ModelLoad(fmt, env) IN
       result' = Res("load", 0, 0, 0, 0, PyStr(fmt), env, Returned(o),
                     o.err, o.calls)
  /\ UNCHANGED <<builder, trees, tree, node, nat, natTrees>>

\* model.compile(dirpath, params)
Compile(p, failed) ==
  /\ TickCall
  /\ LET o == ModelCompile(p, failed) IN
       result' = Res("compile", 0, 0, 0, failed, p, failed = 0, "",
                     o.err, o.calls)
  /\ UNCHANGED <<builder, trees, tree, node, nat, natTrees>>

\* model.export_lib(toolchain, libpath, params)
ExportLib(p, failed) ==
  /\ TickCall
  /\ LET o == ModelExportLib(p, failed) IN
       result' = Res("exportLib", 0, 0, 0, failed, p, failed = 0, "",
                     o.err, o.calls)
  /\ UNCHANGED <<builder, trees, tree, node, nat, natTrees>>

NextCalls ==
  \/ \E nf \in CountInputs, ng \in CountInputs, rf \in FlagInputs,
        kwargs \in KwargInputs, failed \in 0..2 :
        Construct(nf, ng, rf, kwargs, failed)
  \/ \E p \in ParamInputs, refused \in 0..1 : SetParamCall(p, refused)
  \/ \E fmt \in FormatInputs, env \in BOOLEAN : Load(fmt, env)
  \/ \E p \in ParamInputs, failed \in 0..4 : Compile(p, failed)
  \/ \E p \in ParamInputs, failed \in 0..7 : ExportLib(p, failed)

SpecCalls == InitCalls /\ [][NextCalls]_vars

\* ------------------------------------------------------------------ claims
\* A step that is the call op.
Did(op) == ops' = ops + 1 /\ result'.op = op

TestOps   == {"setNumericalTest", "setCategoricalTest"}
ConfigOps == {"setLeaf"} \cup TestOps
Mutators  == {"setRoot"} \cup ConfigOps

\* C1: insert(tree, i) with i outside [0, n] fails with the out-of-range
\* error and changes neither the sequence nor the tree's handle nor the
\* native side; an insert with i in [0, n] that returns has put the tree at
\* position i, moved every tree at a position >= i one position up, left
\* the positions below i alone and made the length n + 1.
C1_InsertPlacesTree ==
  [][Did("insert") =>
       LET t == result'.tree
           i == result'.index
           n == Len(trees) IN
       IF i < 0 \/ i > n
       THEN /\ result'.err = "IndexOutOfRange"
            /\ result'.calls = <<>>
            /\ trees' = trees
            /\ tree' = tree
            /\ nat' = nat /\ natTrees' = natTrees
       ELSE result'.err = "none" =>
              /\ Len(trees') = n + 1
              /\ trees'[i + 1] = t
              /\ \A p \in 1..n :
                   IF p <= i THEN trees'[p] = trees[p]
                   ELSE trees'[p + 1] = trees[p]]_vars

\* An insert at position 0 has moved another tree to position 1.
C1_Witness ==
  /\ result.op = "insert" /\ result.err = "none" /\ result.index = 0
  /\ Len(trees) = 2 /\ trees[1] = result.tree /\ trees[2] # trees[1]

C3_SetExistingKeyFails ==
  [][(Did("set") /\ result'.node \in NodeIds
        /\ HasKey(tree, result'.tree, result'.key)) =>
       /\ result'.err = "DuplicateKey"
       /\ result'.calls = <<>>
       /\ tree' = tree /\ node' = node /\ nat' = nat]_vars

\* A configured node was refused at an existing key.
C3_Witness ==
  /\ result.op = "set" /\ result.err = "DuplicateKey"
  /\ result.node \in NodeIds /\ ~node[result.node].empty

\* C4: set(k, node) for a key k not in T and a node that is not Empty fails
\* with the non-empty-insertion error, makes no native call and leaves
\* trees, nodes and the native side as they were; and whenever a key of a
\* tree comes to map to a node, that node is Empty before and after.
C4_SetNonEmptyFails ==
  [][/\ (Did("set") /\ result'.node \in NodeIds
           /\ ~HasKey(tree, result'.tree, result'.key)
           /\ ~node[result'.node].empty) =>
          /\ result'.err = "NonEmptyInsertion"
          /\ result'.calls = <<>>
          /\ tree' = tree /\ node' = node /\ nat' = nat
     /\ \A t \in TreeIds, k \in Keys :
          (tree'[t].nodes[k] # 0 /\ tree'[t].nodes[k] # tree[t].nodes[k]) =>
            /\ node[tree'[t].nodes[k]].empty
            /\ node'[tree'[t].nodes[k]].empty]_vars

\* A configured node was refused at a free key.
C4_Witness ==
  /\ result.op = "set" /\ result.err = "NonEmptyInsertion"
  /\ ~HasKey(tree, result.tree, result.key)

\* The child keys a test-node call was given.
LeftKey(r)  == r.arg.items[1].num
RightKey(r) == r.arg.items[2].num

\* A mutator is called on a node that is in no tree.
OnUnregistered ==
  /\ \E op \in Mutators : Did(op)
  /\ ~node[result'.node].reg

\* Such a call touches nothing: no native call, no child, the node as it was.
NothingDone ==
  /\ result'.calls = <<>>
  /\ tree' = tree /\ node' = node
  /\ nat' = nat /\ natTrees' = natTrees

\* C5: a mutator called on a node that is in no tree fails, makes no
\* native call, creates no child and leaves the node Empty; the error is
\* the unregistered-node error, except that setLeaf with a value that is
\* not numeric fails with the leaf-value type error, which is checked first.
C5_UnregisteredMutatorFails ==
  [][OnUnregistered =>
       /\ result'.err = IF result'.op = "setLeaf" /\ FloatFails(result'.arg)
                        THEN "LeafType" ELSE "Unregistered"
       /\ NothingDone
       /\ node'[result'.node].empty]_vars

\* A test-node mutator was refused on a node that is in no tree.
C5_Witness ==
  /\ result.op \in TestOps /\ result.err = "Unregistered"
  /\ result.node \in NodeIds /\ ~node[result.node].reg
  /\ node[result.node].empty

\* C5 as stated: the error is the unregistered-node error for every mutator
\* and every argument.
C5_AlwaysUnregisteredError ==
  [][OnUnregistered => result'.err = "Unregistered" /\ NothingDone]_vars

\* setLeaf(v) returns on an Empty node that is in a tree.
LeafSet ==
  /\ Did("setLeaf") /\ result'.err = "none"
  /\ node[result'.node].reg /\ node[result'.node].empty

\* The native call setLeaf made, and what it leaves of node and tree.
LeafMade(payload) ==
  LET n == result'.node
      v == result'.arg IN
  /\ ~node'[n].empty /\ node'[n].kind = "Leaf"
  /\ Len(result'.calls) = 1
  /\ result'.calls[1].key = node[n].key
  /\ result'.calls[1].f = IF IsList(v) THEN "SetLeafVectorNode" ELSE "SetLeafNode"
  /\ result'.calls[1].val = payload
  /\ tree' = tree

\* C6: a setLeaf(v) that returns on an Empty node of a tree has made the
\* node a Leaf and handed the native layer v narrowed to single precision:
\* one value when v is a single value, and when v is a sequence a vector of
\* the same length with each element narrowed; the tree's keys are as before.
C6_SetLeafStoresSingle ==
  [][LeafSet =>
       LET v == result'.arg IN
       LeafMade(IF IsList(v)
                THEN [i \in 1..Len(v.items) |-> F32(v.items[i].num)]
                ELSE <<F32(v.num)>>)]_vars

\* A vector leaf whose second element did not fit a single.
C6_Witness ==
  /\ result.op = "setLeaf" /\ result.err = "none" /\ result.was = "Empty"
  /\ IsList(result.arg)
  /\ result.calls[1].val = <<1, 2^24>>
  /\ node[result.node].kind = "Leaf"

\* C6 as stated: the stored payload is v itself.
C6_PayloadIsExactlyV ==
  [][LeafSet =>
       LET v == result'.arg IN
       LeafMade(IF IsList(v)
                THEN [i \in 1..Len(v.items) |-> v.items[i].num]
                ELSE <<v.num>>)]_vars

\* A test-node mutator returns on a node that is in a tree.
TestSet ==
  /\ \E op \in TestOps : Did(op)
  /\ result'.err = "none"
  /\ node[result'.node].reg

\* After the call key k of the node's tree maps to a node: a new Empty one
\* when k was missing, and the node it mapped to when it was not; same(m)
\* says what of that node has to be as before.
ChildAfter(k, same(_)) ==
  LET t == node[result'.node].tree
      m == tree'[t].nodes[k] IN
  /\ m # 0
  /\ IF ~HasKey(tree, t, k)
     THEN /\ node[m].st = "unborn" /\ node'[m].st = "alive"
          /\ node'[m].empty /\ node'[m].kind = "Empty"
          /\ node'[m].reg /\ node'[m].tree = t /\ node'[m].key = k
     ELSE m = tree[t].nodes[k] /\ same(m)

SameState(m) == node'[m].kind = node[m].kind /\ node'[m].empty = node[m].empty
SameStateUnlessSelf(m) == m # result'.node => node'[m] = node[m]

\* C7: after a test-node mutator with child keys L and R has returned on a
\* node of tree T, L and R are keys of T; each that was missing maps to a
\* new Empty node, each that existed maps to the node it mapped to, and
\* that node is in the state it was in unless it is the node the call
\* configured (L or R is the node's own key), which is now a test node.
C7_TestNodeChildrenExist ==
  [][TestSet =>
       /\ ChildAfter(LeftKey(result'), SameStateUnlessSelf)
       /\ ChildAfter(RightKey(result'), SameStateUnlessSelf)]_vars

\* A test node whose left child is itself and whose right child was created.
C7_Witness ==
  /\ result.op \in TestOps /\ result.err = "none"
  /\ LeftKey(result) = result.key /\ RightKey(result) # result.key
  /\ Len(result.calls) = 2 /\ result.calls[1].f = "CreateNode"
  /\ tree[result.tree].nodes[result.key] = result.node
  /\ HasKey(tree, result.tree, RightKey(result))

\* C7 as stated: an existing child is in the configuration state it was in,
\* the node's own key included.
C7_ExistingChildKeepsState ==
  [][TestSet =>
       /\ ChildAfter(LeftKey(result'), SameState)
       /\ ChildAfter(RightKey(result'), SameState)]_vars

KindOf(op) ==
  CASE op = "setLeaf"            -> "Leaf"
    [] op = "setNumericalTest"   -> "NumericalTest"
    [] op = "setCategoricalTest" -> "CategoricalTest"
    [] OTHER                     -> "Empty"

\* C8: a node is Empty exactly while its empty flag is set; no operation
\* returns a configured node to Empty; and a node's configuration state
\* changes only by a configuring mutator that returns on that node, to the
\* state of that mutator - from Empty or, the front end having no check,
\* from another configured state.
C8_NeverBackToEmpty ==
  [][\A n \in NodeIds :
       /\ node'[n].empty <=> node'[n].kind = "Empty"
       /\ ~node[n].empty => ~node'[n].empty
       /\ node'[n].kind # node[n].kind =>
            /\ \E op \in ConfigOps : Did(op)
            /\ result'.node = n /\ result'.err = "none"
            /\ node'[n].kind = KindOf(result'.op)]_vars

\* A configured node was configured again, to another state.
C8_Witness ==
  /\ result.op \in ConfigOps /\ result.err = "none"
  /\ result.was \in {"Leaf", "NumericalTest", "CategoricalTest"}
  /\ node[result.node].kind = KindOf(result.op)
  /\ node[result.node].kind # result.was

\* C8 as stated: a configured node stays in the state it is in.
C8_ConfiguredOnlyWhileEmpty ==
  [][\A n \in NodeIds :
       ~node[n].empty => node'[n].kind = node[n].kind]_vars

\* C9: every native tree resource is released at most once, and a resource
\* owned by the ensemble is never released through the release path of a
\* Tree object (TreeliteDeleteTreeBuilder).
C9_ReleasedAtMostOnce ==
  \A r \in ResIds : nat[r].rel <= 1 /\ ~nat[r].viaTree

\* C10: while the builder lives, every tree recorded at position p of its
\* sequence (positions from 0) holds the reference bound to ensemble
\* position p; stated for sequences that hold no tree twice.
C10_HandleBoundToPosition ==
  (builder = "alive" /\ Cardinality(Range(trees)) = Len(trees)) =>
    \A p \in 1..Len(trees) : tree[trees[p]].handle = EnsHandle(p - 1)

\* C11: remove(i) with 0 <= i < n that returns has released the ensemble's
\* resource at position i exactly once more, removed position i from the
\* sequence, moved every tree at a position p > i to p - 1 and made the
\* length n - 1; a remove that raises, and so every remove with i outside
\* [0, n), leaves the sequence and every tree's handle as they were.
C11_RemoveShiftsDown ==
  [][Did("delete") =>
       LET i == result'.index
           n == Len(trees) IN
       /\ (i < 0 \/ i >= n) => result'.err # "none"
       /\ IF result'.err = "none"
          THEN /\ Len(trees') = n - 1
               /\ \A p \in 1..(n - 1) :
                    trees'[p] = IF p <= i THEN trees[p] ELSE trees[p + 1]
               /\ natTrees' = RemoveAt(natTrees, i)
               /\ nat'[natTrees[i + 1]].st = "released"
               /\ nat'[natTrees[i + 1]].rel = Min2(nat[natTrees[i + 1]].rel + 1, 2)
               /\ \A r \in ResIds : r # natTrees[i + 1] => nat'[r] = nat[r]
          ELSE /\ trees' = trees
               /\ \A t \in TreeIds : tree'[t].handle = tree[t].handle]_vars

\* The first of two trees was removed: the other moved to position 0.
C11_Witness ==
  /\ result.op = "delete" /\ result.err = "none" /\ result.index = 0
  /\ Len(trees) = 1 /\ Len(natTrees) = 1
  /\ \E r \in ResIds : nat[r].owner = "ens" /\ nat[r].rel = 1

\* C12: commit leaves the builder as it is, whether it returns or raises:
\* the tree sequence, the trees and their handles are unchanged and the
\* builder is still alive, so that insert, remove and commit can be called
\* again; when the native finalize call fails, commit raises that failure
\* and returns no Model, and when it succeeds commit returns a Model.
C12_CommitLeavesBuilder ==
  [][Did("commit") =>
       /\ builder' = "alive" /\ trees' = trees
       /\ tree' = tree /\ node' = node
       /\ nat' = nat /\ natTrees' = natTrees
       /\ IF result'.env
          THEN result'.err = "none" /\ result'.arg = PyModel(Len(natTrees))
          ELSE result'.err = "Native" /\ result'.arg = PyNone]_vars

\* A commit of an ensemble of one tree failed in the native layer.
C12_Witness ==
  /\ result.op = "commit" /\ ~result.env /\ result.err = "Native"
  /\ Len(trees) = 1 /\ builder = "alive"

\* C13: append(tree) on a builder of length n does what insert(tree, n)
\* does under the same native outcomes, with the same error; when it
\* returns, the tree is at the last position, the length is n + 1 and the
\* trees recorded before are at the positions they had.
C13_AppendIsInsertAtEnd ==
  [][Did("append") =>
       LET t == result'.tree
           n == Len(trees) IN
       /\ \E fail \in FailSlots :
            LET o == BuilderInsert(Cur, trees, t, n,
                                   fail # 1, fail # 2, fail # 3) IN
            /\ result'.env = (fail = 0)
            /\ result'.err = o.err /\ result'.calls = o.calls
            /\ trees' = o.ret /\ tree' = o.tree /\ node' = o.node
            /\ nat' = o.nat /\ natTrees' = o.natTrees
       /\ result'.err = "none" =>
            /\ Len(trees') = n + 1 /\ trees'[n + 1] = t
            /\ \A p \in 1..n : trees'[p] = trees[p]]_vars

\* A second tree was appended behind the first.
C13_Witness ==
  /\ result.op = "append" /\ result.err = "none"
  /\ Len(trees) = 2 /\ trees[2] = result.tree /\ trees[1] # trees[2]

\* C14: remove(key) for a key of the tree returns and deletes that entry of
\* the tree's mapping only: every other key of every tree keeps its node,
\* no native call is made and no native resource changes, the tree's handle
\* and its membership in the ensemble are as before, and so is every node.
C14_RemoveIsLocal ==
  [][(Did("remove") /\ HasKey(tree, result'.tree, result'.key)) =>
       LET t == result'.tree
           k == result'.key IN
       /\ result'.err = "none" /\ result'.calls = <<>>
       /\ ~HasKey(tree', t, k)
       /\ \A t2 \in TreeIds, k2 \in Keys :
            (t2 # t \/ k2 # k) => tree'[t2].nodes[k2] = tree[t2].nodes[k2]
       /\ \A t2 \in TreeIds :
            /\ tree'[t2].handle = tree[t2].handle
            /\ tree'[t2].ens = tree[t2].ens
            /\ tree'[t2].st = tree[t2].st
       /\ node' = node
       /\ nat' = nat /\ natTrees' = natTrees
       /\ trees' = trees /\ builder' = builder]_vars

\* One of the two nodes of a tree held by the ensemble was removed.
C14_Witness ==
  /\ result.op = "remove" /\ result.err = "none"
  /\ TreeLen(tree, result.tree) = 1
  /\ result.tree \in Range(trees)
  /\ \E r \in ResIds : nat[r].owner = "ens" /\ Cardinality(nat[r].keys) = 2

\* A mutator returns on a node.
MutatorReturned ==
  /\ \E op \in Mutators : Did(op)
  /\ result'.err = "none"

\* The node is where its tree's mapping has its key.
InMapping(tr, nd, n) ==
  /\ nd[n].reg
  /\ tr[nd[n].tree].nodes[nd[n].key] = n

\* C15: a mutator (setRoot, setLeaf, setNumericalTest, setCategoricalTest)
\* returns only on a node that is in its tree's mapping when it is called;
\* on a node whose key was removed from the tree every mutator fails.
C15_MutatorNeedsMapping ==
  [][MutatorReturned => InMapping(tree, node, result'.node)]_vars

\* C20: after a remove(k) that returned, a following set(k, node) with an
\* Empty node that is in no tree, the native layer left to work, returns
\* and leaves k mapped to that node.
C20_SetAfterRemove ==
  [][(/\ Did("set")
      /\ result.op = "remove" /\ result.err = "none"
      /\ result'.tree = result.tree /\ result'.key = result.key
      /\ result'.node \in NodeIds /\ result'.env
      /\ node[result'.node].empty /\ ~node[result'.node].reg) =>
       /\ result'.err = "none"
       /\ tree'[result'.tree].nodes[result'.key] = result'.node]_vars

\* The names of the calls made, in order, and the place of one of them
\* (0 when it was not made).
Names(calls) == [i \in 1..Len(calls) |-> calls[i].f]
Place(calls, name) ==
  IF \E i \in 1..Len(calls) : calls[i].f = name
  THEN CHOOSE i \in 1..Len(calls) : calls[i].f = name
  ELSE 0
Before(calls, a, b) ==
  Place(calls, b) # 0 => (Place(calls, a) # 0 /\ Place(calls, a) < Place(calls, b))

\* C16: export_lib checks the extension first, then compiles into a
\* temporary directory, then builds the library, then moves it, each step
\* only after every earlier one has succeeded: an extension that does not
\* match fails with no other step, no directory and no compilation; the
\* build runs only after the compiler ran and was freed without failure;
\* the move runs only after that and a build that did not fail; and the
\* call returns only after the move.
C16_ExportStepsInOrder ==
  [][Did("exportLib") =>
       LET c == result'.calls
           failed == result'.index
           compiled == Place(c, "CompilerFree") # 0 /\ failed # 4 IN
       /\ c[1].f = "check_ext"
       /\ failed = 5 =>
            result'.err = "ExtensionMismatch" /\ Names(c) = <<"check_ext">>
       /\ Before(c, "check_ext", "TemporaryDirectory")
       /\ Before(c, "TemporaryDirectory", "CompilerCreate")
       /\ Before(c, "CompilerCreate", "CompilerGenerateCode")
       /\ Before(c, "CompilerGenerateCode", "CompilerFree")
       /\ Before(c, "CompilerFree", "create_shared")
       /\ Before(c, "create_shared", "move")
       /\ Place(c, "create_shared") # 0 => compiled
       /\ Place(c, "move") # 0 => compiled /\ failed # 6
       /\ result'.err = "none" => Place(c, "move") # 0 /\ failed \in {0, 2}]_vars

\* The library build failed after a compilation that succeeded: no move.
C16_Witness ==
  /\ result.op = "exportLib" /\ result.index = 6 /\ result.err = "Toolchain"
  /\ Place(result.calls, "create_shared") # 0
  /\ Place(result.calls, "move") = 0

\* s spells name, upper or lower case, in ASCII.
Spells(s, name) ==
  /\ Len(s) = Len(name)
  /\ \A i \in 1..Len(s) :
       s[i] = name[i] \/ (s[i] \in 65..90 /\ s[i] + 32 = name[i])

ImporterNamed(s) ==
  IF Spells(s, Xgboost) THEN "LoadXGBoostModel"
  ELSE IF Spells(s, Lightgbm) THEN "LoadLightGBMModel"
  ELSE IF Spells(s, Protobuf) THEN "LoadProtobufModel"
  ELSE "none"

\* C17: load calls exactly one importer, the one whose name the format
\* spells in upper or lower case, and returns a Model when that call
\* succeeds and none when it fails; for a format that is not ASCII or
\* spells none of xgboost, lightgbm, protobuf it fails with the
\* unsupported-format error, calls no importer and returns no Model.
C17_LoadDispatch ==
  [][Did("load") =>
       LET fmt == result'.arg.items IN
       IF ImporterNamed(fmt) # "none"
       THEN /\ Names(result'.calls) = <<ImporterNamed(fmt)>>
            /\ result'.err = IF result'.env THEN "none" ELSE "Native"
            /\ result'.was = IF result'.env THEN "Model" ELSE ""
       ELSE /\ result'.err = "UnsupportedFormat"
            /\ result'.calls = <<>>
            /\ result'.was = ""]_vars

\* "XGBoost" was loaded by the XGBoost importer.
C17_Witness ==
  /\ result.op = "load" /\ result.err = "none" /\ result.was = "Model"
  /\ result.arg.items # Xgboost
  /\ Names(result.calls) = <<"LoadXGBoostModel">>

\* The (key, string) pairs a call handed to the native layer, and the pairs
\* a parameter set supplies, each value converted to a string.
IsParamCall(c) == c.f \in {"ModelBuilderSetModelParam", "CompilerSetParam"}
Forwarded(calls) ==
  LET s == SelectSeq(calls, IsParamCall) IN
  [i \in 1..Len(s) |-> <<s[i].key, s[i].val>>]
Supplied(p) ==
  [i \in 1..Len(p.items) |-> <<p.items[i].key, Str(p.items[i].val)>>]

\* C18: for a parameter set given as a mapping, a list of pairs or a single
\* key with a value, the builder's path (_set_param) and the compile path,
\* the native layer left to work, both return having forwarded one
\* (key, string) pair per supplied entry, in order, so that both forward
\* the same sequence.
C18_SamePairsBothPaths ==
  [][((Did("setParam") \/ Did("compile")) /\ result'.env
        /\ ~(result'.arg.ty = "single" /\ result'.arg.items[1].val = PyNone)) =>
       /\ result'.err = "none"
       /\ Forwarded(result'.calls) = Supplied(result'.arg)]_vars

\* C19: a construction in which the feature count or the output-group
\* count is not a positive integer, or the forest flag is not a boolean,
\* fails with the validation error before any native call and leaves no
\* builder; a construction that returns has both counts positive and an
\* empty tree sequence.
C19_ConstructionValidates ==
  [][Did("ModelBuilder") =>
       LET nf == result'.arg.items[1]
           ng == result'.arg.items[2]
           rf == result'.arg.items[3]
           positive(v) == v.ty = "num" /\ v.num > 0 IN
       /\ (~positive(nf) \/ ~positive(ng) \/ rf.ty # "bool") =>
            /\ result'.err = "Validation" /\ result'.calls = <<>>
            /\ builder' = "unborn"
       /\ result'.err = "none" =>
            /\ positive(nf) /\ positive(ng)
            /\ builder' = "alive" /\ trees' = <<>>]_vars

\* The places (tree, key) of live trees where node n is stored.
StoredAt(n) ==
  {<<t, k>> \in TreeIds \X Keys : tree[t].st = "alive" /\ tree[t].nodes[k] = n}

\* C21: for every tree T and key k of T's mapping, the node stored at k
\* records k as its key and T as its tree, and no node is stored under two
\* keys or in two trees.
C21_NodeKnowsItsPlace ==
  \A n \in NodeIds :
    /\ \A pl \in StoredAt(n) :
         node[n].reg /\ node[n].tree = pl[1] /\ node[n].key = pl[2]
    /\ Cardinality(StoredAt(n)) <= 1

\* C22: while the builder lives, its tree sequence and the native
\* ensemble's tree list have the same length, after calls that return and
\* after calls that fail at one of their native steps.
C22_ListsSameLength ==
  builder = "alive" => Len(trees) = Len(natTrees)

\* How often a call was made.
Count(calls, name) == Cardinality({i \in 1..Len(calls) : calls[i].f = name})

\* C23: a compile that created its compiler, whether it returns or raises
\* because the native layer refuses a parameter or fails to generate code,
\* has called TreeliteCompilerFree for it exactly once.
C23_CompilerFreedOnce ==
  [][(Did("compile") /\ result'.index # 1 /\ result'.arg.ty # "single") =>
       /\ Count(result'.calls, "CompilerCreate") = 1
       /\ Count(result'.calls, "CompilerFree") = 1]_vars

=============================================================================
